---- MODULE Spec2Model ----
(***************************************************************************)
(* Natural-language database query interface (src/main.py).                *)
(*                                                                         *)
(* Texts are TLA+ strings, handled as sequences of characters with Len,    *)
(* SubSeq and \o.  The grave accent (the markdown fence character) cannot  *)
(* be written inside a TLA+ string literal, so it is written "#"; no other *)
(* modelled text contains "#".                                             *)
(***************************************************************************)
EXTENDS Naturals, Sequences, FiniteSets, TLC

VARIABLES
    pc,            \* position of the process (main / process_question)
    config,        \* which of OPENAI_API_KEY, PG_USER / PG_PASSWORD are set
    interactive,   \* no question on the command line: the read loop runs
    use_two_shot,  \* --two-shot / -2 given
    cycle,         \* number of questions accepted so far
    db,            \* the database's public tables, ordered by table name
    schema,        \* process_question: schema
    examples,      \* get_two_shot_examples' return value
    sql_query,     \* process_question: sql_query (the oracle's output)
    cleaned,       \* clean_sql_query's return value
    valid,         \* validate_query's return value
    columns,       \* process_question: columns
    results,       \* process_question: results
    results_str,   \* process_question: results_str
    conns,         \* connections opened in the current question cycle
    leaked,        \* connections of earlier cycles never closed by the code
    printed,       \* lines printed in the current question cycle
    oracleCalls,   \* chat.completions.create calls in the current cycle
    exit_status    \* the process's exit status once it has ended

vars == <<pc, config, interactive, use_two_shot, cycle, db, schema, examples,
          sql_query, cleaned, valid, columns, results, results_str, conns,
          leaked, printed, oracleCalls, exit_status>>

None == "<None>"

----------------------------------------------------------------------------
(* Python str methods, as the code uses them.                              *)

Backtick == "#"

Char(s, i) == SubSeq(s, i, i)

RECURSIVE LStripChars(_, _)
LStripChars(s, cs) ==
    IF Len(s) > 0 /\ Char(s, 1) \in cs THEN LStripChars(SubSeq(s, 2, Len(s)), cs)
    ELSE s

RECURSIVE RStripChars(_, _)
RStripChars(s, cs) ==
    IF Len(s) > 0 /\ Char(s, Len(s)) \in cs
    THEN RStripChars(SubSeq(s, 1, Len(s) - 1), cs)
    ELSE s

\* the whitespace characters that occur in the modelled texts
Whitespace == {" ", "\n", "\t"}

LStrip(s) == LStripChars(s, Whitespace)

RStrip(s) == RStripChars(s, Whitespace)

Strip(s) == RStrip(LStrip(s))

StartsWith(s, p) == Len(s) >= Len(p) /\ SubSeq(s, 1, Len(p)) = p

\* p in s
Contains(s, p) ==
    \E i \in 1..(Len(s) - Len(p) + 1) : SubSeq(s, i, i + Len(p) - 1) = p

LowerLetters == "abcdefghijklmnopqrstuvwxyz"

UpperLetters == "ABCDEFGHIJKLMNOPQRSTUVWXYZ"

UpperChar(c) ==
    IF \E i \in 1..26 : Char(LowerLetters, i) = c
    THEN Char(UpperLetters, CHOOSE i \in 1..26 : Char(LowerLetters, i) = c)
    ELSE c

LowerChar(c) ==
    IF \E i \in 1..26 : Char(UpperLetters, i) = c
    THEN Char(LowerLetters, CHOOSE i \in 1..26 : Char(UpperLetters, i) = c)
    ELSE c

\* s.upper(), character by character
RECURSIVE Upper(_)
Upper(s) ==
    IF Len(s) = 0 THEN ""
    ELSE IF Len(s) = 1 THEN UpperChar(s)
    ELSE LET h == Len(s) \div 2
         IN  Upper(SubSeq(s, 1, h)) \o Upper(SubSeq(s, h + 1, Len(s)))

\* s.lower(), character by character
RECURSIVE Lower(_)
Lower(s) ==
    IF Len(s) = 0 THEN ""
    ELSE IF Len(s) = 1 THEN LowerChar(s)
    ELSE LET h == Len(s) \div 2
         IN  Lower(SubSeq(s, 1, h)) \o Lower(SubSeq(s, h + 1, Len(s)))

\* s.find(p) + 1: the first position where p occurs in s, 0 when it does not
Find(s, p) ==
    LET hits == {i \in 1..(Len(s) - Len(p) + 1) : SubSeq(s, i, i + Len(p) - 1) = p}
    IN  IF hits = {} THEN 0 ELSE CHOOSE i \in hits : \A j \in hits : i <= j

\* s.split(sep)
RECURSIVE Split(_, _)
Split(s, sep) ==
    LET i == Find(s, sep)
    IN  IF i = 0 THEN <<s>>
        ELSE <<SubSeq(s, 1, i - 1)>> \o Split(SubSeq(s, i + Len(sep), Len(s)), sep)

\* s.replace(old, new): every non-overlapping occurrence, left to right
RECURSIVE Replace(_, _, _)
Replace(s, old, new) ==
    LET i == Find(s, old)
    IN  IF i = 0 THEN s
        ELSE SubSeq(s, 1, i - 1) \o new \o Replace(SubSeq(s, i + Len(old), Len(s)), old, new)

\* str(n) of a natural number
Digit(n) == Char("0123456789", n + 1)

RECURSIVE NatToStr(_)
NatToStr(n) == IF n < 10 THEN Digit(n) ELSE NatToStr(n \div 10) \o Digit(n % 10)

RECURSIVE Concat(_)
Concat(ss) == IF Len(ss) = 0 THEN "" ELSE Head(ss) \o Concat(Tail(ss))

----------------------------------------------------------------------------
(* clean_sql_query and validate_query                                      *)

Fence == Backtick \o Backtick \o Backtick

CleanSqlQuery(text) ==
    LET query == Strip(text) IN
    IF StartsWith(query, Fence)
    THEN LET q1 == LStripChars(query, {Backtick})
             q2 == IF StartsWith(q1, "sql") THEN SubSeq(q1, 4, Len(q1)) ELSE q1
             q3 == LStrip(q2)
         IN  Strip(RStripChars(q3, {Backtick}))
    ELSE query

ValidateQuery(text) ==
    LET cleaned_query == CleanSqlQuery(text)
        query_upper == Upper(Strip(cleaned_query))
    IN  StartsWith(query_upper, "SELECT")

----------------------------------------------------------------------------
(* The database, as the information_schema queries of get_database_schema  *)
(* see it: tables ordered by table_name, columns by ordinal_position.      *)

\* bounds of the model
MaxTables == 3
MaxTokens == 3
MaxCols == 2
MaxRows == 2
MaxCycles == 2

\* table names that may exist, in ORDER BY table_name order
TableNames == <<"orders", "person", "student_request", "ta", "widgets">>

Col(n, t, nullable) == [column_name |-> n, data_type |-> t, is_nullable |-> nullable]

\* column lists a table may have
ColumnLists ==
    << <<>>,
       <<Col("id", "integer", "NO")>>,
       <<Col("id", "integer", "NO"), Col("person_id", "integer", "YES")>> >>

RECURSIVE TablesOf(_, _, _)
TablesOf(S, f, i) ==
    IF i > Len(TableNames) THEN <<>>
    ELSE (IF i \in S
          THEN <<[table_name |-> TableNames[i], columns |-> ColumnLists[f[i]]]>>
          ELSE <<>>) \o TablesOf(S, f, i + 1)

Databases ==
    {TablesOf(S, f, 1) :
        S \in {T \in SUBSET (1..Len(TableNames)) : Cardinality(T) <= MaxTables},
        f \in [1..Len(TableNames) -> 1..Len(ColumnLists)]}

----------------------------------------------------------------------------
(* get_database_schema: the rendering of the schema text                   *)

RenderColumn(c) ==
    LET nullable_str == IF c.is_nullable = "YES" THEN "NULL" ELSE "NOT NULL"
    IN  "  - " \o c.column_name \o ": " \o c.data_type \o " (" \o nullable_str \o ")\n"

RECURSIVE RenderColumns(_)
RenderColumns(cs) ==
    IF Len(cs) = 0 THEN "" ELSE RenderColumn(Head(cs)) \o RenderColumns(Tail(cs))

RenderTable(t) ==
    "Table: " \o t.table_name \o "\n" \o "Columns:\n" \o RenderColumns(t.columns) \o "\n"

RECURSIVE RenderTables(_)
RenderTables(ts) ==
    IF Len(ts) = 0 THEN "" ELSE RenderTable(Head(ts)) \o RenderTables(Tail(ts))

RenderSchema(d) == "Database Schema:\n\n" \o RenderTables(d)

----------------------------------------------------------------------------
(* get_two_shot_examples                                                   *)

ExamplesHeader == "\nEXAMPLES (for reference on how to query this database):\n"

DomainExamples ==
    ExamplesHeader
    \o "\nExample 1:"
    \o "\nQuestion: How many students are waiting for help?"
    \o "\nSQL: SELECT COUNT(*) as waiting_count FROM student_request sr WHERE NOT EXISTS (SELECT 1 FROM ta_response tr WHERE tr.student_request = sr.id);"
    \o "\nExample 2:"
    \o "\nQuestion: Show me the names of active TAs"
    \o "\nSQL: SELECT p.first_name, p.last_name FROM person p JOIN ta t ON p.byu_id = t.byu_id WHERE t.active_status = TRUE;"

\* the names on the lines that start with "Table:", in order of appearance
RECURSIVE TableLines(_)
TableLines(lines) ==
    IF Len(lines) = 0 THEN <<>>
    ELSE (IF StartsWith(Head(lines), "Table:")
          THEN <<Strip(Replace(Head(lines), "Table: ", ""))>>
          ELSE <<>>) \o TableLines(Tail(lines))

GenericExamples(tables) ==
    IF Len(tables) = 0 THEN ExamplesHeader
    ELSE ExamplesHeader
         \o "\nExample 1:"
         \o "\nQuestion: Show all records from " \o tables[1]
         \o "\nSQL: SELECT * FROM " \o tables[1] \o " LIMIT 10;"
         \o (IF Len(tables) > 1
             THEN "\nExample 2:"
                  \o "\nQuestion: Count records in " \o tables[1]
                  \o "\nSQL: SELECT COUNT(*) as total FROM " \o tables[1] \o ";"
             ELSE "\nExample 2:"
                  \o "\nQuestion: How many records are in " \o tables[1] \o "?"
                  \o "\nSQL: SELECT COUNT(*) as record_count FROM " \o tables[1] \o ";")

GetTwoShotExamples(text) ==
    LET lowered == Lower(text)
        has_student_request == Contains(lowered, "student_request")
        has_ta == Contains(lowered, "ta")
        has_person == Contains(lowered, "person")
    IN  IF has_student_request /\ has_ta /\ has_person
        THEN DomainExamples
        ELSE GenericExamples(TableLines(Split(text, "\n")))

----------------------------------------------------------------------------
(* format_results                                                          *)

IntVal(n) == [kind |-> "int", n |-> n, s |-> ""]

StrVal(s) == [kind |-> "str", n |-> 0, s |-> s]

\* the f-string's str(val)
Str(v) == IF v.kind = "int" THEN NatToStr(v.n) ELSE v.s

Min(a, b) == IF a <= b THEN a ELSE b

\* a formatter that lists each column name once (as a dict of the row would)
RECURSIVE FormatRowByName(_, _, _)
FormatRowByName(cols, row, i) ==
    IF i > Min(Len(cols), Len(row)) THEN ""
    ELSE (IF \E j \in 1..(i - 1) : cols[j] = cols[i] THEN ""
          ELSE cols[i] \o ": " \o Str(row[i]) \o "\n") \o FormatRowByName(cols, row, i + 1)

\* for col, val in zip(columns, row): formatted += f"{col}: {val}\n"
RECURSIVE FormatRow(_, _, _)
FormatRow(cols, row, i) ==
    IF i > Min(Len(cols), Len(row)) THEN ""
    ELSE cols[i] \o ": " \o Str(row[i]) \o "\n" \o FormatRow(cols, row, i + 1)

RECURSIVE FormatRows(_, _)
FormatRows(cols, rows) ==
    IF Len(rows) = 0 THEN ""
    ELSE "\n" \o FormatRow(cols, Head(rows), 1) \o FormatRows(cols, Tail(rows))

FormatResults(cols, rows) ==
    IF Len(rows) = 0 THEN "No results found." ELSE FormatRows(cols, rows)

\* column names and values the executor may return
ColumnNames == {"id", "name"}

Values == {IntVal(12), StrVal("a")}

SeqsUpTo(S, n) == UNION {[1..k -> S] : k \in 0..n}

\* result sets whose rows are positionally aligned with the column names
ResultSets(maxCols, maxRows) ==
    UNION {{<<cols, rows>> : rows \in SeqsUpTo([1..Len(cols) -> Values], maxRows)} :
              cols \in SeqsUpTo(ColumnNames, maxCols)}

----------------------------------------------------------------------------
(* Connections and what is issued on them                                  *)

SetReadOnly == [kind |-> "set_read_only", text |-> "SET default_transaction_read_only = ON;"]

TablesQuery == [kind |-> "metadata", text |-> "SELECT table_name FROM information_schema.tables"]

ColumnsQuery(t) == [kind |-> "metadata", text |-> "SELECT column_name, data_type, is_nullable FROM information_schema.columns WHERE table_name = " \o t]

DataQuery(text) == [kind |-> "data", text |-> text]

RECURSIVE ColumnsQueries(_)
ColumnsQueries(ts) ==
    IF Len(ts) = 0 THEN <<>>
    ELSE <<ColumnsQuery(Head(ts).table_name)>> \o ColumnsQueries(Tail(ts))

\* the cursor.execute calls of get_database_schema, in program order
SchemaCommands(d) == <<SetReadOnly, TablesQuery>> \o ColumnsQueries(d)

\* execute_query issuing the query before the session is read-only
ExecuteCommandsQueryFirst(cleaned_sql) == <<DataQuery(cleaned_sql), SetReadOnly>>

\* the cursor.execute calls of execute_query, in program order
ExecuteCommands(cleaned_sql) == <<SetReadOnly, DataQuery(cleaned_sql)>>

\* a connection: why it was opened, what was issued on it, and whether it is
\* "open", "closed" (conn.close()) or "finalized" (reclaimed unclosed)
Conn(purpose, cmds, state) == [purpose |-> purpose, cmds |-> cmds, state |-> state]

OpenCount(cs) == Cardinality({i \in 1..Len(cs) : cs[i].state = "open"})

\* what becomes of a connection object the function drops without close():
\* the interpreter may or may not have reclaimed it yet
DroppedStates == {"open", "finalized"}

\* the state of the connection when execute_query's except clause returns
AfterExecuteError == DroppedStates

----------------------------------------------------------------------------
(* Inputs                                                                  *)

\* pieces an answer is made of: an opening fence with its language tag, a
\* bare fence, a line break, a query and a statement that is no query
Tokens == {Fence \o "sql\n", Fence, "\n", "select 1;", "DROP TABLE foo;"}

\* what the oracle may answer
OracleOutputs == {Concat(ts) : ts \in SeqsUpTo(Tokens, MaxTokens)}

\* what the user may type at the prompt; "^C" stands for KeyboardInterrupt
InputLines == {"how many orders are there", " QUIT", "", "^C"}

Question == "how many orders are there"

\* the database of the question cycles: orders(id integer not null,
\* total numeric null)
CycleDatabases ==
    {<<[table_name |-> "orders",
        columns |-> <<Col("id", "integer", "NO"), Col("total", "numeric", "YES")>>]>>}

\* the result sets the executor may return in a question cycle
CycleResultSets == {rs \in ResultSets(1, 1) : rs[1] = <<"id">>}

Some(x) == <<x>>

Absent == <<>>

----------------------------------------------------------------------------
(* The process: main and process_question                                  *)

Init ==
    /\ pc = "main"
    /\ config \in {"ok", "no_api_key", "no_db_credentials"}
    /\ interactive \in BOOLEAN
    /\ use_two_shot \in BOOLEAN
    /\ cycle = 0
    /\ db \in CycleDatabases
    /\ schema = None
    /\ examples = None
    /\ sql_query = None
    /\ cleaned = None
    /\ valid = FALSE
    /\ columns = Absent
    /\ results = Absent
    /\ results_str = None
    /\ conns = <<>>
    /\ leaked = 0
    /\ printed = <<>>
    /\ oracleCalls = 0
    /\ exit_status = None

\* process_question's locals at its entry, and the banner it prints
BeginQuestion(banner) ==
    /\ cycle' = cycle + 1
    /\ schema' = None
    /\ examples' = None
    /\ sql_query' = None
    /\ cleaned' = None
    /\ valid' = FALSE
    /\ columns' = Absent
    /\ results' = Absent
    /\ results_str' = None
    /\ leaked' = leaked + OpenCount(conns)
    /\ conns' = <<>>
    /\ oracleCalls' = 0
    /\ printed' = banner \o <<"Question: " \o Question>>
    /\ pc' = "schema"

\* process_question returns: back to the prompt, or the end of main
EndQuestion ==
    /\ pc' = IF interactive THEN "input" ELSE "exited"
    /\ exit_status' = IF interactive THEN exit_status ELSE "0"

\* an exception leaves process_question: caught by main's `except Exception`
\* in the read loop, uncaught (traceback, status 1) with a command-line question
Raise(lines, e) ==
    IF interactive
    THEN /\ printed' = printed \o lines \o <<"An error occurred: " \o e>>
         /\ pc' = "input"
         /\ exit_status' = exit_status
    ELSE /\ printed' = printed \o lines
         /\ pc' = "exited"
         /\ exit_status' = "1"

\* sys.exit(1): SystemExit is no Exception, so nothing in main catches it
SysExit(lines) ==
    /\ printed' = printed \o lines
    /\ pc' = "exited"
    /\ exit_status' = "1"

Main ==
    /\ pc = "main"
    /\ UNCHANGED <<config, interactive, use_two_shot, db>>
    /\ \/ /\ config = "no_api_key"
          /\ SysExit(<<"Error: OPENAI_API_KEY not found. Please set it in your .env file.">>)
          /\ UNCHANGED <<cycle, schema, examples, sql_query, cleaned, valid, columns,
                         results, results_str, conns, leaked, oracleCalls>>
       \/ /\ config = "no_db_credentials"
          /\ SysExit(<<"Error: Database credentials not found. Please set them in your .env file.">>)
          /\ UNCHANGED <<cycle, schema, examples, sql_query, cleaned, valid, columns,
                         results, results_str, conns, leaked, oracleCalls>>
       \/ /\ config = "ok"
          /\ ~interactive
          /\ BeginQuestion(<<>>)
          /\ UNCHANGED exit_status
       \/ /\ config = "ok"
          /\ interactive
          /\ pc' = "input"
          /\ printed' = <<"Type 'exit' or 'quit' to exit.">>
          /\ UNCHANGED <<cycle, schema, examples, sql_query, cleaned, valid, columns,
                         results, results_str, conns, leaked, oracleCalls, exit_status>>

ReadQuestion ==
    /\ pc = "input"
    /\ UNCHANGED <<config, interactive, use_two_shot, db>>
    /\ \E line \in InputLines :
        LET question == Strip(line) IN
        \/ /\ line = "^C"
           /\ printed' = <<"Goodbye!">>
           /\ pc' = "exited"
           /\ exit_status' = "0"
           /\ UNCHANGED <<cycle, schema, examples, sql_query, cleaned, valid, columns,
                          results, results_str, conns, leaked, oracleCalls>>
        \/ /\ line # "^C"
           /\ Lower(question) \in {"exit", "quit"}
           /\ printed' = <<"Goodbye!">>
           /\ pc' = "exited"
           /\ exit_status' = "0"
           /\ UNCHANGED <<cycle, schema, examples, sql_query, cleaned, valid, columns,
                          results, results_str, conns, leaked, oracleCalls>>
        \/ /\ line # "^C"
           /\ question = ""
           /\ printed' = <<"Please enter a valid question.">>
           /\ UNCHANGED <<pc, cycle, schema, examples, sql_query, cleaned, valid, columns,
                          results, results_str, conns, leaked, oracleCalls, exit_status>>
        \/ /\ line # "^C"
           /\ Lower(question) \notin {"exit", "quit"}
           /\ question # ""
           /\ cycle < MaxCycles
           /\ BeginQuestion(<<>>)
           /\ UNCHANGED exit_status

\* get_database_schema: failAt = 0 is a failed connect, failAt = k the k-th
\* cursor.execute raising, failAt past the last command a complete retrieval
GetDatabaseSchema ==
    /\ pc = "schema"
    /\ UNCHANGED <<config, interactive, use_two_shot, db, cycle, examples, sql_query,
                   cleaned, valid, columns, results, results_str, leaked, oracleCalls>>
    /\ LET cmds == SchemaCommands(db)
           line == <<"[1/4] Retrieving database schema...">>
       IN  \E failAt \in 0..(Len(cmds) + 1) :
            \/ /\ failAt = 0
               /\ conns' = conns
               /\ schema' = schema
               /\ SysExit(line \o <<"Database connection error: connection refused">>)
            \/ /\ failAt \in 1..Len(cmds)
               /\ conns' = Append(conns, Conn("schema", SubSeq(cmds, 1, failAt), "open"))
               /\ schema' = schema
               /\ SysExit(line \o <<"Database connection error: query failed">>)
            \/ /\ failAt = Len(cmds) + 1
               /\ conns' = Append(conns, Conn("schema", cmds, "closed"))
               /\ schema' = RenderSchema(db)
               /\ printed' = printed \o line
               /\ pc' = "generate"
               /\ exit_status' = exit_status

\* generate_sql, and process_question's print of the cleaned query
GenerateSql ==
    /\ pc = "generate"
    /\ UNCHANGED <<config, interactive, use_two_shot, db, cycle, schema, valid, columns,
                   results, results_str, conns, leaked>>
    /\ examples' = IF use_two_shot THEN GetTwoShotExamples(schema) ELSE ""
    /\ oracleCalls' = oracleCalls + 1
    /\ LET line == <<"[2/4] Generating SQL query from your question...">>
       IN  \/ /\ Raise(line, "oracle call failed")
              /\ UNCHANGED <<sql_query, cleaned>>
           \/ \E content \in OracleOutputs :
                /\ sql_query' = Strip(content)
                /\ cleaned' = CleanSqlQuery(sql_query')
                /\ printed' = printed \o line \o <<"Generated SQL: " \o cleaned'>>
                /\ pc' = "execute"
                /\ exit_status' = exit_status

NotExecuted == "Error: Could not execute the query. Only SELECT queries are allowed."

\* execute_query, and process_question's `if columns is None: return`
ExecuteQuery ==
    /\ pc = "execute"
    /\ UNCHANGED <<config, interactive, use_two_shot, db, cycle, schema, examples,
                   sql_query, cleaned, results_str, leaked, oracleCalls>>
    /\ LET cleaned_sql == CleanSqlQuery(sql_query)
           line == <<"[3/4] Executing query...">>
           cmds == ExecuteCommands(cleaned_sql)
           ok == ValidateQuery(cleaned_sql)
       IN  /\ valid' = ok
           /\ \/ /\ ~ok
                 /\ printed' = printed \o line \o
                        <<"Error: Only SELECT queries are allowed. Your query: " \o cleaned_sql,
                          NotExecuted>>
                 /\ UNCHANGED <<conns, columns, results>>
                 /\ EndQuestion
              \/ /\ ok
                 /\ printed' = printed \o line \o
                        <<"Query execution error: connection refused", NotExecuted>>
                 /\ UNCHANGED <<conns, columns, results>>
                 /\ EndQuestion
              \/ /\ ok
                 /\ \E failAt \in 1..Len(cmds), st \in AfterExecuteError :
                        conns' = Append(conns, Conn("execute", SubSeq(cmds, 1, failAt), st))
                 /\ printed' = printed \o line \o
                        <<"Query execution error: statement failed", NotExecuted>>
                 /\ UNCHANGED <<columns, results>>
                 /\ EndQuestion
              \/ /\ ok
                 /\ conns' = Append(conns, Conn("execute", cmds, "closed"))
                 /\ printed' = printed \o line \o <<NotExecuted>>
                 /\ UNCHANGED <<columns, results>>
                 /\ EndQuestion
              \/ /\ ok
                 /\ conns' = Append(conns, Conn("execute", cmds, "closed"))
                 /\ \E rs \in CycleResultSets :
                        /\ columns' = Some(rs[1])
                        /\ results' = Some(rs[2])
                 /\ printed' = printed \o line
                 /\ pc' = "format"
                 /\ exit_status' = exit_status

\* process_question: results_str = format_results(columns, results), printed
FormatStep ==
    /\ pc = "format"
    /\ UNCHANGED <<config, interactive, use_two_shot, db, cycle, schema, examples,
                   sql_query, cleaned, valid, columns, results, conns, leaked,
                   oracleCalls, exit_status>>
    /\ results_str' = FormatResults(columns[1], results[1])
    /\ printed' = printed \o <<"Query Results: " \o results_str'>>
    /\ pc' = "answer"

\* generate_answer, and process_question's print of the answer
GenerateAnswer ==
    /\ pc = "answer"
    /\ UNCHANGED <<config, interactive, use_two_shot, db, cycle, schema, examples,
                   sql_query, cleaned, valid, columns, results, results_str, conns, leaked>>
    /\ oracleCalls' = oracleCalls + 1
    /\ LET line == <<"[4/4] Generating natural language answer...">>
       IN  \/ Raise(line, "oracle call failed")
           \/ /\ printed' = printed \o line \o <<"Answer: (the oracle's answer)">>
              /\ EndQuestion

Next ==
    \/ Main
    \/ ReadQuestion
    \/ GetDatabaseSchema
    \/ GenerateSql
    \/ ExecuteQuery
    \/ FormatStep
    \/ GenerateAnswer

Spec == Init /\ [][Next]_vars

----------------------------------------------------------------------------
(* The sanitizer and the validator on every oracle output                  *)

Idle ==
    /\ config = "ok"
    /\ interactive = FALSE
    /\ use_two_shot = TRUE
    /\ cycle = 0
    /\ conns = <<>>
    /\ leaked = 0
    /\ printed = <<>>
    /\ oracleCalls = 0
    /\ exit_status = None

InitSanitize ==
    /\ Idle
    /\ pc = "raw"
    /\ sql_query \in OracleOutputs
    /\ cleaned = None
    /\ valid = FALSE
    /\ db = <<>>
    /\ schema = None
    /\ examples = None
    /\ columns = Absent
    /\ results = Absent
    /\ results_str = None

\* cleaned_sql = clean_sql_query(sql_query)
Sanitize ==
    /\ pc = "raw"
    /\ cleaned' = CleanSqlQuery(sql_query)
    /\ pc' = "sanitized"
    /\ UNCHANGED <<config, interactive, use_two_shot, cycle, db, schema, examples,
                   sql_query, valid, columns, results, results_str, conns, leaked,
                   printed, oracleCalls, exit_status>>

\* validate_query(cleaned_sql)
Validate ==
    /\ pc = "sanitized"
    /\ valid' = ValidateQuery(cleaned)
    /\ pc' = "validated"
    /\ UNCHANGED <<config, interactive, use_two_shot, cycle, db, schema, examples,
                   sql_query, cleaned, columns, results, results_str, conns, leaked,
                   printed, oracleCalls, exit_status>>

NextSanitize == Sanitize \/ Validate

SpecSanitize == InitSanitize /\ [][NextSanitize]_vars

----------------------------------------------------------------------------
(* The schema rendering and the example selector on every database         *)

InitExamples ==
    /\ Idle
    /\ pc = "db"
    /\ db \in Databases
    /\ schema = None
    /\ examples = None
    /\ sql_query = None
    /\ cleaned = None
    /\ valid = FALSE
    /\ columns = Absent
    /\ results = Absent
    /\ results_str = None

\* schema = get_database_schema(), the retrieval succeeding
Render ==
    /\ pc = "db"
    /\ schema' = RenderSchema(db)
    /\ pc' = "rendered"
    /\ UNCHANGED <<config, interactive, use_two_shot, cycle, db, examples, sql_query,
                   cleaned, valid, columns, results, results_str, conns, leaked,
                   printed, oracleCalls, exit_status>>

\* examples_section = get_two_shot_examples(schema)
SelectExamples ==
    /\ pc = "rendered"
    /\ examples' = GetTwoShotExamples(schema)
    /\ pc' = "selected"
    /\ UNCHANGED <<config, interactive, use_two_shot, cycle, db, schema, sql_query,
                   cleaned, valid, columns, results, results_str, conns, leaked,
                   printed, oracleCalls, exit_status>>

NextExamples == Render \/ SelectExamples

SpecExamples == InitExamples /\ [][NextExamples]_vars

----------------------------------------------------------------------------
(* The result formatter on every aligned result set                        *)

InitFormat ==
    /\ Idle
    /\ pc = "rows"
    /\ \E rs \in ResultSets(MaxCols, MaxRows) :
         /\ columns = Some(rs[1])
         /\ results = Some(rs[2])
    /\ results_str = None
    /\ db = <<>>
    /\ schema = None
    /\ examples = None
    /\ sql_query = None
    /\ cleaned = None
    /\ valid = FALSE

\* results_str = format_results(columns, results)
Format ==
    /\ pc = "rows"
    /\ results_str' = FormatResults(columns[1], results[1])
    /\ pc' = "formatted"
    /\ UNCHANGED <<config, interactive, use_two_shot, cycle, db, schema, examples,
                   sql_query, cleaned, valid, columns, results, conns, leaked,
                   printed, oracleCalls, exit_status>>

NextFormat == Format

SpecFormat == InitFormat /\ [][NextFormat]_vars

----------------------------------------------------------------------------
(* Properties                                                              *)

\* the SELECT-prefix check of a text: upper-cased and stripped, it begins
\* with the token SELECT
BeginsWithSelect(text) == StartsWith(Upper(Strip(text)), "SELECT")

\* text ends with p
EndsWith(s, p) == Len(s) >= Len(p) /\ SubSeq(s, Len(s) - Len(p) + 1, Len(s)) = p

HasPrinted(line) == \E i \in 1..Len(printed) : printed[i] = line

HasPrintedPrefix(p) == \E i \in 1..Len(printed) : StartsWith(printed[i], p)

\* C1: every text execute_query hands to cursor.execute as the query begins,
\* case-folded and stripped of leading whitespace, with SELECT.
C1_ExecutedTextBeginsWithSelect ==
    \A i \in 1..Len(conns) : \A k \in 1..Len(conns[i].cmds) :
        conns[i].cmds[k].kind = "data" =>
            StartsWith(Upper(LStrip(conns[i].cmds[k].text)), "SELECT")

\* C2: clean_sql_query is idempotent: cleaning its own output changes nothing.
C2_SanitizeIdempotent ==
    pc \in {"sanitized", "validated"} => CleanSqlQuery(cleaned) = cleaned

\* C3: on a sanitized text, validate_query accepts exactly when the text,
\* upper-cased and stripped, begins with SELECT.
C3_ValidateIffSelectPrefix ==
    pc = "validated" => (valid <=> BeginsWithSelect(cleaned))

\* C4: in interactive mode a failed schema retrieval does not end the process,
\* and the process ends with an error only for a configuration error.
C4_SchemaFailureKeepsLoopAlive ==
    /\ (interactive /\ HasPrintedPrefix("Database connection error")) => pc # "exited"
    /\ (interactive /\ pc = "exited" /\ exit_status = "1") => config # "ok"

\* C5: when the sanitized oracle output fails the SELECT-prefix check, the
\* rejected text is shown, no connection is opened for execution, nothing is
\* executed, and neither formatting nor the answer oracle call happens.
C5_RejectedNeverExecuted ==
    (HasPrinted("[3/4] Executing query...") /\ ~BeginsWithSelect(CleanSqlQuery(sql_query)))
        => /\ HasPrinted("Error: Only SELECT queries are allowed. Your query: "
                             \o CleanSqlQuery(sql_query))
           /\ \A i \in 1..Len(conns) : conns[i].purpose # "execute"
           /\ results_str = None
           /\ oracleCalls = 1

\* C6: when the next question can be accepted, no connection of the finished
\* cycle, nor of an earlier one, is still open.
C6_NoOpenConnectionAtPrompt ==
    pc = "input" => (leaked = 0 /\ \A i \in 1..Len(conns) : conns[i].state # "open")

\* the three identifiers of the domain fingerprint
Fingerprint == {"student_request", "ta", "person"}

\* C7: the fixed domain-specific examples are emitted exactly when each
\* fingerprint identifier is a substring of some table name of the schema.
C7_DomainSetIffFingerprintTables ==
    pc = "selected" =>
        ((examples = DomainExamples)
            <=> \A f \in Fingerprint : \E i \in 1..Len(db) : Contains(Lower(db[i].table_name), f))

\* number of examples in an examples text
ExampleCount(text) == Len(Split(text, "\nExample ")) - 1

\* C8: in the generic branch with at least one table, the first example is
\* SELECT * FROM <first table> LIMIT 10 and the second is a count query on the
\* first table when it is the only one, on the second table otherwise.
C8_GenericSecondExampleOnSecondTable ==
    (pc = "selected" /\ examples # DomainExamples /\ Len(db) >= 1) =>
        LET first == db[1].table_name
            counted == IF Len(db) = 1 THEN first ELSE db[2].table_name
        IN  /\ ExampleCount(examples) = 2
            /\ Contains(examples, "\nSQL: SELECT * FROM " \o first \o " LIMIT 10;\nExample 2:")
            /\ Contains(examples, "\nSQL: SELECT COUNT(*) as ")
            /\ EndsWith(examples, " FROM " \o counted \o ";")

\* C9: on every connection, a metadata or data query is issued only after the
\* command that sets the session read-only has been issued on that connection.
C9_ReadOnlyBeforeAnyQuery ==
    \A i \in 1..Len(conns) : \A k \in 1..Len(conns[i].cmds) :
        conns[i].cmds[k].kind \in {"metadata", "data"} =>
            \E j \in 1..(k - 1) : conns[i].cmds[j].kind = "set_read_only"

\* a cycle in which metadata queries and the data query have both been issued
C9_Witness ==
    /\ \E i \in 1..Len(conns) : \E k \in 1..Len(conns[i].cmds) :
            conns[i].purpose = "schema" /\ conns[i].cmds[k].kind = "metadata"
    /\ \E i \in 1..Len(conns) : \E k \in 1..Len(conns[i].cmds) :
            conns[i].purpose = "execute" /\ conns[i].cmds[k].kind = "data"

\* the blocks of a formatted text: each blank line opens a block, and the
\* lines up to the next blank line are the block's lines
RECURSIVE BlocksOf(_)
BlocksOf(lines) ==
    IF Len(lines) = 0 THEN <<>>
    ELSE LET before == BlocksOf(SubSeq(lines, 1, Len(lines) - 1))
             last == lines[Len(lines)]
         IN  IF last = "" THEN Append(before, <<>>)
             ELSE IF Len(before) = 0 THEN <<<<last>>>>
             ELSE [before EXCEPT ![Len(before)] = Append(@, last)]

\* C10: format_results returns "No results found." for no rows; otherwise the
\* text is one block per row in row order, each opened by a blank line, and
\* each block holds one "columnName: value" line per column in positional order.
C10_FormatResultsBlocks ==
    pc = "formatted" =>
        LET cols == columns[1]
            rows == results[1]
            lines == Split(results_str, "\n")
        IN  IF Len(rows) = 0 THEN results_str = "No results found."
            ELSE /\ lines[Len(lines)] = ""
                 /\ BlocksOf(SubSeq(lines, 1, Len(lines) - 1))
                        = [r \in 1..Len(rows) |->
                             [c \in 1..Len(cols) |-> cols[c] \o ": " \o Str(rows[r][c])]]

\* two different rows formatted under a duplicated column name
C10_Witness ==
    /\ pc = "formatted"
    /\ Len(results[1]) = 2
    /\ results[1][1] # results[1][2]
    /\ Len(columns[1]) = 2
    /\ columns[1][1] = columns[1][2]

----------------------------------------------------------------------------
(* What the code does where the properties above fail                      *)

\* validate_query's verdict is the SELECT-prefix check of its argument
\* cleaned once more, which is the check of the argument itself unless the
\* argument still begins with a fence.
ValidateChecksTheRecleanedText ==
    pc = "validated" =>
        /\ valid <=> BeginsWithSelect(CleanSqlQuery(cleaned))
        /\ ~StartsWith(cleaned, Fence) => (valid <=> BeginsWithSelect(cleaned))

\* When validate_query rejects, execute_query shows the rejected text and
\* returns before connecting, and process_question returns before formatting.
ValidatorRejectionAborts ==
    (HasPrinted("[3/4] Executing query...") /\ ~ValidateQuery(CleanSqlQuery(sql_query)))
        => /\ HasPrinted("Error: Only SELECT queries are allowed. Your query: "
                             \o CleanSqlQuery(sql_query))
           /\ \A i \in 1..Len(conns) : conns[i].purpose # "execute"
           /\ results_str = None
           /\ oracleCalls = 1

\* Every connection that is not closed at the prompt was dropped by
\* execute_query's except clause; the schema connection is always closed there.
OnlyFailedExecutionLeavesOpen ==
    pc = "input" =>
        \A i \in 1..Len(conns) :
            conns[i].state # "closed" =>
                /\ conns[i].purpose = "execute"
                /\ results_str = None

\* The domain examples are emitted exactly when student_request and person
\* occur anywhere in the rendered schema text.
DomainSetIffTextMentions ==
    pc = "selected" =>
        ((examples = DomainExamples)
            <=> (Contains(Lower(schema), "student_request") /\ Contains(Lower(schema), "person")))

\* Both generic examples are about the first table, however many there are.
GenericExamplesOnFirstTable ==
    (pc = "selected" /\ examples # DomainExamples /\ Len(db) >= 1) =>
        /\ ExampleCount(examples) = 2
        /\ Contains(examples, "\nSQL: SELECT * FROM " \o db[1].table_name \o " LIMIT 10;\nExample 2:")
        /\ Contains(examples, "\nSQL: SELECT COUNT(*) as ")
        /\ EndsWith(examples, " FROM " \o db[1].table_name \o ";")

====
